---- MODULE Spec2Model ----
(***************************************************************************)
(* A model of the mail-CLI semantic search engine (src/semantic_search.py) *)
(* Texts are sequences of one-character strings over an ASCII alphabet.    *)
(* Floating-point numbers are records [nan, val]: val counts hundredths    *)
(* for scores and thresholds and tenths for the components of a normalized *)
(* vector; nan marks IEEE not-a-number, which numpy produces for 0/0.      *)
(***************************************************************************)
EXTENDS Integers, Sequences, FiniteSets, TLC

(***************************************************************************)
(* Bounds of the model                                                     *)
(***************************************************************************)
\* the longest input body, counted in fragments
MaxFrags == 3
\* the length of the long word that drives a body over the length cap
LongLen == 499
\* the largest corpus handed to a search
MaxDocs == 3

\* the engine is asked for by at most MaxRequests concurrent requests
MaxRequests == 3
\* the most messages in the folder the IMAP client reads
MaxMsgs == 2

(***************************************************************************)
(* Characters and character classes (Python's re on ASCII text)            *)
(***************************************************************************)
LowerSeq == << "a","b","c","d","e","f","g","h","i","j","k","l","m",
               "n","o","p","q","r","s","t","u","v","w","x","y","z" >>

UpperSeq == << "A","B","C","D","E","F","G","H","I","J","K","L","M",
               "N","O","P","Q","R","S","T","U","V","W","X","Y","Z" >>

Range(s) == { s[i] : i \in DOMAIN s }

Letters == Range(LowerSeq) \cup Range(UpperSeq)

Digits == { "0","1","2","3","4","5","6","7","8","9" }

\* \s
IsSpace(c) == c \in { " ", "\t", "\n", "\r", "\f" }

\* \w
IsWord(c) == c \in Letters \cup Digits \cup { "_" }

\* re.IGNORECASE compares letters by their lower-case form
ToLower(c) ==
    IF c \in Range(UpperSeq)
    THEN LowerSeq[CHOOSE i \in DOMAIN UpperSeq : UpperSeq[i] = c]
    ELSE c

SetMin(S) == CHOOSE x \in S : \A y \in S : x <= y

SetMax(S) == CHOOSE x \in S : \A y \in S : x >= y

\* \b before position i of text (position Len(text)+1 is the end of the text)
WordBoundary(text, i) ==
    LET before == i > 1 /\ i - 1 <= Len(text) /\ IsWord(text[i - 1])
        after  == i >= 1 /\ i <= Len(text) /\ IsWord(text[i])
    IN  before # after

\* where a greedy repetition stops: the first of the positions stops, or the
\* position after the end of text when there is none
RunEnd(text, stops) == IF stops = {} THEN Len(text) + 1 ELSE SetMin(stops)

\* str.strip()
Strip(text) ==
    LET solid == { i \in 1..Len(text) : ~IsSpace(text[i]) }
    IN  IF solid = {} THEN << >> ELSE SubSeq(text, SetMin(solid), SetMax(solid))

(***************************************************************************)
(* clean_email_body, step by step                                          *)
(***************************************************************************)
\* html.entities.html5, restricted to the names the input alphabet can spell
Html5Names == { <<"a","m","p",";">>, <<"a","m","p">>, <<"l","t",";">>, <<"l","t">>,
                <<"g","t",";">>, <<"g","t">>, <<"q","u","o","t",";">>, <<"q","u","o","t">> }

Html5Char(name) ==
    CASE name[1] = "a" -> "&"
      [] name[1] = "l" -> "<"
      [] name[1] = "g" -> ">"
      [] OTHER -> "\""

\* the longest run a named character reference may span
MaxEntityLen == 32

IsEntityChar(c) == c \notin { "\t", "\n", "\f", " ", "<", "&", "#", ";" }

\* html.unescape's replace_charref for a named reference s (without the '&')
ReplaceCharref(s) ==
    IF s \in Html5Names THEN << Html5Char(s) >>
    ELSE LET cuts == { x \in 2..(Len(s) - 1) : SubSeq(s, 1, x) \in Html5Names }
         IN  IF cuts = {} THEN << "&" >> \o s
             ELSE LET x == SetMax(cuts)
                  IN  << Html5Char(SubSeq(s, 1, x)) >> \o SubSeq(s, x + 1, Len(s))

\* html.unescape(text), line 50
RECURSIVE HtmlUnescape(_)
HtmlUnescape(text) ==
    LET n == Len(text)
        starts == { i \in 1..n : text[i] = "&" /\ i < n /\ IsEntityChar(text[i + 1]) }
    IN  IF starts = {} THEN text
        ELSE LET i == SetMin(starts)
                 runEnd == RunEnd(text, { j \in (i + 1)..n : ~IsEntityChar(text[j]) })
                 nameEnd == IF runEnd - (i + 1) > MaxEntityLen
                            THEN i + 1 + MaxEntityLen ELSE runEnd
                 last == IF nameEnd <= n /\ text[nameEnd] = ";"
                         THEN nameEnd ELSE nameEnd - 1
             IN  SubSeq(text, 1, i - 1)
                   \o ReplaceCharref(SubSeq(text, i + 1, last))
                   \o HtmlUnescape(SubSeq(text, last + 1, n))

\* re.sub(r'<[^>]+>', ' ', text), line 53
RECURSIVE RemoveTags(_)
RemoveTags(text) ==
    LET n == Len(text)
        closes == { j \in 1..n : text[j] = ">" }
        opens == { i \in 1..n : text[i] = "<"
                     /\ i < n /\ text[i + 1] # ">"
                     /\ \E j \in closes : j > i }
    IN  IF opens = {} THEN text
        ELSE LET i == SetMin(opens)
                 j == SetMin({ k \in closes : k > i })
             IN  SubSeq(text, 1, i - 1) \o << " " >> \o RemoveTags(SubSeq(text, j + 1, n))

\* the characters the URL pattern repeats: [a-zA-Z], [0-9], [$-_@.&+], [!*\(\),]
IsUrlChar(c) ==
    c \in Letters \cup Digits
       \cup { "$","%","&","'","(",")","*","+",",","-",".","/",":",";","<","=",">","?",
              "@","[","\\","]","^","_","!" }

\* the length of 'http://' or 'https://' when text has it at position i, else 0
UrlSchemeAt(text, i) ==
    IF i + 6 <= Len(text) /\ SubSeq(text, i, i + 6) = << "h","t","t","p",":","/","/" >>
    THEN 7
    ELSE IF i + 7 <= Len(text)
              /\ SubSeq(text, i, i + 7) = << "h","t","t","p","s",":","/","/" >>
    THEN 8
    ELSE 0

\* re.sub(r'http[s]?://(?:...)+', ' ', text), line 56
RECURSIVE RemoveUrls(_)
RemoveUrls(text) ==
    LET n == Len(text)
        starts == { i \in 1..n : /\ UrlSchemeAt(text, i) > 0
                                 /\ i + UrlSchemeAt(text, i) <= n
                                 /\ IsUrlChar(text[i + UrlSchemeAt(text, i)]) }
    IN  IF starts = {} THEN text
        ELSE LET i == SetMin(starts)
                 e == RunEnd(text, { j \in (i + UrlSchemeAt(text, i))..n : ~IsUrlChar(text[j]) })
             IN  SubSeq(text, 1, i - 1) \o << " " >> \o RemoveUrls(SubSeq(text, e, n))

IsLocalChar(c) == c \in Letters \cup Digits \cup { ".", "_", "%", "+", "-" }

IsDomainChar(c) == c \in Letters \cup Digits \cup { ".", "-" }

\* [A-Z|a-z]
IsTldChar(c) == c \in Letters \cup { "|" }

\* the last position of the e-mail address the pattern matches at position i, 0 if
\* none: the greedy domain gives the last workable dot, the greedy top-level
\* domain the last end at a word boundary
EmailEnd(text, i) ==
    LET n == Len(text)
        at == RunEnd(text, { j \in i..n : ~IsLocalChar(text[j]) })
    IN  IF ~WordBoundary(text, i) \/ at = i \/ at > n THEN 0
        ELSE IF text[at] # "@" THEN 0
        ELSE LET dEnd == RunEnd(text, { j \in (at + 1)..n : ~IsDomainChar(text[j]) }) - 1
                 TldEnds(d) == { e \in (d + 2)..n :
                                   /\ \A k \in (d + 1)..e : IsTldChar(text[k])
                                   /\ WordBoundary(text, e + 1) }
                 dots == { d \in (at + 2)..dEnd : text[d] = "." /\ TldEnds(d) # {} }
             IN  IF dots = {} THEN 0 ELSE SetMax(TldEnds(SetMax(dots)))

\* re.sub(r'\b[A-Za-z0-9._%+-]+@[A-Za-z0-9.-]+\.[A-Z|a-z]{2,}\b', ' ', text)
\* from position pos on, line 59
RECURSIVE RemoveEmailsFrom(_, _)
RemoveEmailsFrom(text, pos) ==
    LET n == Len(text)
        ats == { a \in pos..n : text[a] = "@" }
        starts == IF ats = {} THEN {}
                  ELSE { i \in pos..n : EmailEnd(text, i) > 0 }
    IN  IF starts = {} THEN SubSeq(text, pos, n)
        ELSE LET i == SetMin(starts)
             IN  SubSeq(text, pos, i - 1) \o << " " >>
                   \o RemoveEmailsFrom(text, EmailEnd(text, i) + 1)

RemoveEmails(text) == RemoveEmailsFrom(text, 1)

\* re.sub(r'\s+', ' ', text), lines 62 and 76
CollapseWhitespace(text) ==
    LET n == Len(text)
        marked == [ i \in 1..n |->
                      [ c |-> IF IsSpace(text[i]) THEN " " ELSE text[i],
                        keep |-> ~(IsSpace(text[i]) /\ i > 1 /\ IsSpace(text[i - 1])) ] ]
        kept == SelectSeq(marked, LAMBDA m : m.keep)
    IN  [ i \in 1..Len(kept) |-> kept[i].c ]

\* the footer and signature markers of line 65; wb: the marker stands between \b
Markers ==
    { [ word |-> << "u","n","s","u","b","s","c","r","i","b","e" >>, wb |-> FALSE ],
      [ word |-> << "p","r","i","v","a","c","y"," ","p","o","l","i","c","y" >>, wb |-> FALSE ],
      [ word |-> << "t","e","r","m","s"," ","o","f"," ","s","e","r","v","i","c","e" >>,
        wb |-> FALSE ],
      [ word |-> << "s","e","n","t"," ","f","r","o","m" >>, wb |-> TRUE ],
      [ word |-> << "b","e","s","t"," ","r","e","g","a","r","d","s" >>, wb |-> TRUE ],
      [ word |-> << "s","i","n","c","e","r","e","l","y" >>, wb |-> TRUE ] }

MarkerAt(text, i, m) ==
    LET k == Len(m.word)
    IN  /\ i + k - 1 <= Len(text)
        /\ \A j \in 1..k : ToLower(text[i + j - 1]) = m.word[j]
        /\ m.wb => WordBoundary(text, i) /\ WordBoundary(text, i + k)

\* re.sub(r'(unsubscribe|...|\bsincerely\b).*', '', text, flags=re.IGNORECASE)
\* from position pos on, line 65: '.' stops at a line feed
RECURSIVE RemoveFootersFrom(_, _)
RemoveFootersFrom(text, pos) ==
    LET n == Len(text)
        starts == { i \in pos..n : \E m \in Markers : MarkerAt(text, i, m) }
    IN  IF starts = {} THEN SubSeq(text, pos, n)
        ELSE LET i == SetMin(starts)
                 feeds == { j \in i..n : text[j] = "\n" }
             IN  IF feeds = {} THEN SubSeq(text, pos, i - 1)
                 ELSE SubSeq(text, pos, i - 1) \o RemoveFootersFrom(text, SetMin(feeds))

RemoveFooters(text) == RemoveFootersFrom(text, 1)

\* text.split('\n')
RECURSIVE SplitLines(_)
SplitLines(text) ==
    LET feeds == { j \in 1..Len(text) : text[j] = "\n" }
    IN  IF feeds = {} THEN << text >>
        ELSE LET j == SetMin(feeds)
             IN  << SubSeq(text, 1, j - 1) >> \o SplitLines(SubSeq(text, j + 1, Len(text)))

\* line.strip().startswith('>')
IsQuotedLine(line) == Strip(line) # << >> /\ Strip(line)[1] = ">"

\* ' '.join(lines)
RECURSIVE JoinLines(_)
JoinLines(lines) ==
    IF lines = << >> THEN << >>
    ELSE IF Len(lines) = 1 THEN lines[1]
    ELSE lines[1] \o << " " >> \o JoinLines(Tail(lines))

\* lines 68-70
RemoveQuotedLines(text) ==
    JoinLines(SelectSeq(SplitLines(text), LAMBDA line : ~IsQuotedLine(line)))

\* the characters line 73 keeps: [\w\s.,!?;:\-'"()]
IsKeptChar(c) ==
    IsWord(c) \/ IsSpace(c) \/ c \in { ".", ",", "!", "?", ";", ":", "-", "'", "\"", "(", ")" }

\* re.sub(r'[^\w\s.,!?;:\-\'"()]', ' ', text), line 73
ReplaceSpecials(text) ==
    [ i \in 1..Len(text) |-> IF IsKeptChar(text[i]) THEN text[i] ELSE " " ]

\* the length cap of line 79
MaxBodyLen == 500

\* lines 79-80
Truncate(text) ==
    IF Len(text) > MaxBodyLen
    THEN SubSeq(text, 1, MaxBodyLen) \o << ".", ".", "." >>
    ELSE text

\* SemanticSearchEngine.clean_email_body
clean_email_body(body) ==
    IF body = << >> THEN << >>
    ELSE Truncate(                                   \* lines 79-80
           Strip(CollapseWhitespace(                  \* line 76
             ReplaceSpecials(                         \* line 73
               RemoveQuotedLines(                     \* lines 68-70
                 RemoveFooters(                       \* line 65
                   CollapseWhitespace(                \* line 62
                     RemoveEmails(                    \* line 59
                       RemoveUrls(                    \* line 56
                         RemoveTags(                  \* line 53
                           HtmlUnescape(body)))))))))))  \* line 50

(***************************************************************************)
(* Floating point, vectors and the embedding functions                     *)
(***************************************************************************)
Num(x) == [ nan |-> FALSE, val |-> x ]

NaN == [ nan |-> TRUE, val |-> 0 ]

\* float comparison: every comparison with a NaN is False
FloatLt(a, b) == ~a.nan /\ ~b.nan /\ a.val < b.val

FloatGe(a, b) == ~a.nan /\ ~b.nan /\ a.val >= b.val

\* the length of a normalized vector, in the tenths its components are counted in
Unit == 10

\* what model.encode may return: the zero vector and vectors of integer length
RawVectors == { << 0, 0 >>, << 5, 0 >>, << 3, 4 >>, << 0, 10 >> }

Sqrt(x) == CHOOSE r \in 0..x : r * r = x

\* np.linalg.norm(embedding)
Norm(v) == Sqrt(v[1] * v[1] + v[2] * v[2])

\* embedding / np.linalg.norm(embedding), lines 111 and 124: numpy gives 0/0 = nan
Normalize(v) ==
    IF Norm(v) = 0 THEN [ i \in DOMAIN v |-> NaN ]
    ELSE [ i \in DOMAIN v |-> Num((v[i] * Unit) \div Norm(v)) ]

\* np.dot of two vectors: a NaN component makes the sum NaN
Dot(a, b) ==
    IF \E i \in DOMAIN a : a[i].nan \/ b[i].nan THEN NaN
    ELSE Num(a[1].val * b[1].val + a[2].val * b[2].val)

\* dict.get(key, default)
Get(d, key, default) == IF key \in DOMAIN d THEN d[key] ELSE default

\* the placeholder of line 107
EmptyText == << "e","m","p","t","y"," ","e","m","a","i","l" >>

\* lines 106-107: a blank combined text gives way to the placeholder
OrEmptyText(combined_text) ==
    IF Strip(combined_text) = << >> THEN EmptyText ELSE combined_text

\* line 103: f"{subject} {subject} {cleaned_body}"
Combine(subject, cleaned_body) ==
    subject \o << " " >> \o subject \o << " " >> \o cleaned_body

\* the text create_email_embedding hands to model.encode, lines 95-107
CombinedText(email_data) ==
    OrEmptyText(Combine(Strip(Get(email_data, "subject", << >>)),
                        clean_email_body(Get(email_data, "full_body",
                                             Get(email_data, "body", << >>)))))

\* self.model.encode(text): the vector returned (ret) and the text received
\* (encoded); model is the text -> vector map of the loaded SentenceTransformer
Encode(model, text) == [ ret |-> model[text], encoded |-> << text >> ]

\* embedding / np.linalg.norm(embedding), lines 111 and 124
Normalized(embedding) ==
    [ ret |-> Normalize(embedding.ret), encoded |-> embedding.encoded ]

\* SemanticSearchEngine.create_email_embedding
create_email_embedding(model, email_data) ==
    Normalized(Encode(model, CombinedText(email_data)))

\* SemanticSearchEngine.create_query_embedding
create_query_embedding(model, query) == Normalized(Encode(model, query))

\* SemanticSearchEngine.compute_similarity
compute_similarity(query_embedding, email_embeddings) ==
    [ i \in 1..Len(email_embeddings) |-> Dot(email_embeddings[i], query_embedding) ]

(***************************************************************************)
(* list.sort(key=lambda x: x[1], reverse=True) as CPython sorts a short     *)
(* list: reverse, find the leading run, binary insertion, reverse          *)
(***************************************************************************)
Reverse(s) == [ i \in 1..Len(s) |-> s[Len(s) + 1 - i] ]

KeyLt(x, y) == FloatLt(x.score, y.score)

\* count_run: the length of the leading run and whether it is strictly descending
CountRun(a) ==
    IF Len(a) < 2 THEN [ n |-> Len(a), descending |-> FALSE ]
    ELSE LET desc == KeyLt(a[2], a[1])
             lens == { m \in 2..Len(a) : \A k \in 3..m : KeyLt(a[k], a[k - 1]) = desc }
         IN  [ n |-> SetMax(lens), descending |-> desc ]

\* the place binarysort finds for pivot among a[l..r-1]
RECURSIVE BinarySearch(_, _, _, _)
BinarySearch(a, pivot, l, r) ==
    IF l >= r THEN l
    ELSE LET p == l + ((r - l) \div 2)
         IN  IF KeyLt(pivot, a[p]) THEN BinarySearch(a, pivot, l, p)
             ELSE BinarySearch(a, pivot, p + 1, r)

\* binarysort: a[1..start-1] is sorted, insert a[start..] one by one
RECURSIVE BinarySort(_, _)
BinarySort(a, start) ==
    IF start > Len(a) THEN a
    ELSE LET l == BinarySearch(a, a[start], 1, start)
             moved == SubSeq(a, 1, l - 1) \o << a[start] >> \o SubSeq(a, l, start - 1)
                        \o SubSeq(a, start + 1, Len(a))
         IN  BinarySort(moved, start + 1)

\* a variant of SortDescending that sorts ascending and reverses the outcome,
\* which turns the documents of equal score around
SortDescending_TiesReversed(scores) ==
    LET run == CountRun(scores)
        b == IF run.descending
             THEN Reverse(SubSeq(scores, 1, run.n)) \o SubSeq(scores, run.n + 1, Len(scores))
             ELSE scores
    IN  IF Len(scores) < 2 THEN scores ELSE Reverse(BinarySort(b, run.n + 1))

SortDescending(scores) ==
    LET a == Reverse(scores)
        run == CountRun(a)
        b == IF run.descending
             THEN Reverse(SubSeq(a, 1, run.n)) \o SubSeq(a, run.n + 1, Len(a))
             ELSE a
    IN  IF Len(a) < 2 THEN scores ELSE Reverse(BinarySort(b, run.n + 1))

\* the slice s[:k]
Slice(s, k) ==
    IF k >= 0 THEN SubSeq(s, 1, IF k < Len(s) THEN k ELSE Len(s))
    ELSE SubSeq(s, 1, IF Len(s) + k > 0 THEN Len(s) + k ELSE 0)

(***************************************************************************)
(* The search functions                                                    *)
(***************************************************************************)
\* similarity_threshold of the engine get_semantic_engine builds, in hundredths
DefaultThreshold == 10

\* None
None == << >>

\* top_k when the request of the web API names none, and top_k of the CLI
WebTopK == 5

CliTopK == 8

\* line 177: zip(emails, similarities)
Zip(emails, similarities) ==
    [ i \in 1..Len(emails) |-> [ email |-> emails[i], score |-> similarities[i] ] ]

\* lines 174-177: the similarities of the embeddings, paired with the e-mails
Paired(emails, query_embedding, email_embeddings) ==
    [ ret |-> Zip(emails,
                  compute_similarity(query_embedding.ret,
                                     [ i \in 1..Len(emails) |-> email_embeddings[i].ret ])),
      encoded |-> query_embedding.encoded
                    \o [ i \in 1..Len(emails) |-> email_embeddings[i].encoded[1] ] ]

\* lines 168-177: the (email, score) pairs (ret) and the texts handed to
\* model.encode on the way, in call order (encoded)
EmailScores(model, query, emails) ==
    Paired(emails, create_query_embedding(model, query),
           [ i \in 1..Len(emails) |-> create_email_embedding(model, emails[i]) ])

\* a variant of Rank without the fallback to the best document
Rank_NoFallback(email_scores, threshold, top_k) ==
    Slice(SortDescending(SelectSeq(email_scores,
                                   LAMBDA x : FloatGe(x.score, Num(threshold)))), top_k)

\* a variant of Rank that fills the result up to top_k with documents below the
\* threshold
Rank_Padded(email_scores, threshold, top_k) ==
    LET filtered_scores == SelectSeq(email_scores,
                                     LAMBDA x : FloatGe(x.score, Num(threshold)))
    IN  IF filtered_scores = << >>
        THEN Slice(SortDescending(email_scores), 1)
        ELSE Slice(SortDescending(email_scores), top_k)

\* lines 179-191: filter by the threshold, fall back to the best, sort, cut
Rank(email_scores, threshold, top_k) ==
    LET filtered_scores == SelectSeq(email_scores,
                                     LAMBDA x : FloatGe(x.score, Num(threshold)))
    IN  IF filtered_scores = << >>
        THEN Slice(SortDescending(email_scores), 1)
        ELSE Slice(SortDescending(filtered_scores), top_k)

\* line 165: min_threshold if it is not None, else the engine's threshold
ThresholdOrDefault(min_threshold) ==
    IF min_threshold # None THEN min_threshold[1] ELSE DefaultThreshold

\* lines 179-191 on the scored e-mails, the texts encoded so far carried along
Ranked(email_scores, threshold, top_k) ==
    [ ret |-> Rank(email_scores.ret, threshold, top_k),
      encoded |-> email_scores.encoded ]

\* a variant of semantic_search that embeds the query before it looks at the corpus
semantic_search_NoEmptyGuard(model, query, emails, top_k, min_threshold) ==
    Ranked(EmailScores(model, query, emails), ThresholdOrDefault(min_threshold), top_k)

\* SemanticSearchEngine.semantic_search: what it returns (ret) and the texts it
\* hands to model.encode on the way (encoded)
semantic_search(model, query, emails, top_k, min_threshold) ==
    IF emails = << >> THEN [ ret |-> << >>, encoded |-> << >> ]
    ELSE Ranked(EmailScores(model, query, emails),
                ThresholdOrDefault(min_threshold), top_k)

\* lines 208-212: keep the results at or above threshold, cut to top_k
FilteredResults(results, threshold, top_k) ==
    [ ret |-> Slice(SelectSeq(results.ret, LAMBDA x : FloatGe(x.score, Num(threshold))),
                    top_k),
      encoded |-> results.encoded ]

\* SemanticSearchEngine.search_with_threshold
search_with_threshold(model, query, emails, threshold, top_k) ==
    FilteredResults(semantic_search(model, query, emails, Len(emails), None),
                    threshold, top_k)

\* line 262: [email for email, score in results]
EmailsOf(results) ==
    [ ret |-> [ i \in 1..Len(results.ret) |-> results.ret[i].email ],
      encoded |-> results.encoded ]

\* semantic_search_emails, with fetch_all_emails returning mailbox
semantic_search_emails(model, mailbox, query, top_k, min_threshold) ==
    IF mailbox = << >> THEN [ ret |-> << >>, encoded |-> << >> ]
    ELSE EmailsOf(semantic_search(model, query, mailbox, top_k, min_threshold))

\* semantic_search_with_scores, with fetch_all_emails returning mailbox
semantic_search_with_scores(model, mailbox, query, top_k, min_threshold) ==
    IF mailbox = << >> THEN [ ret |-> << >>, encoded |-> << >> ]
    ELSE semantic_search(model, query, mailbox, top_k, min_threshold)

(***************************************************************************)
(* State                                                                   *)
(***************************************************************************)
VARIABLES
    pc,             \* "called" while the arguments wait, then the name of the function
                    \* run; in the IMAP client and the layers, the line reached
    model,          \* the loaded SentenceTransformer: text -> raw vector
    query,          \* argument query
    emails,         \* argument emails; in semantic_search_emails and the layers, the
                    \* list fetch_all_emails or search_emails returned, newest first
    top_k,          \* argument top_k
    min_threshold,  \* argument min_threshold: None or << hundredths >>
    result,         \* what the function returned
    encoded,        \* the texts handed to model.encode during the call, in order
    body,           \* the raw body handed to clean_email_body
    cleaned,        \* the returns of clean_email_body: of body, then of its own return
    _semantic_engine,  \* the module global: None or the engine instance stored in it
    constructed,    \* how many SemanticSearchEngine instances the process has built
    threads,        \* per request thread: where it stands in get_semantic_engine
                    \* (pc) and the engine it holds (engine)
    request,        \* what a presentation layer or a caller of the IMAP client asked for
    response,       \* what the presentation layer answered
    fetches,        \* how many times fetch_all_emails has returned the mailbox to the
                    \* route, option or search function that called it
    calls,          \* the invocations of engine.semantic_search a presentation layer
                    \* has caused, each with its top_k and threshold
    mail,           \* the IMAP session: None, "open" after login, "closed" after logout
    inbox,          \* the messages of the folder on the server
    email_ids       \* the message ids the fetch loop has still to visit

\* the arguments and results of the engine's functions
searchVars == << pc, model, query, emails, top_k, min_threshold, result, encoded, body,
                cleaned >>

\* the state of a presentation layer
boundaryVars == << request, response, fetches, calls >>

\* the state of the IMAP client
imapVars == << mail, inbox, email_ids >>

\* the state of the process around the engine
appVars == << _semantic_engine, constructed, threads, boundaryVars, imapVars >>

vars == << pc, model, query, emails, top_k, min_threshold, result, encoded, body, cleaned,
           appVars >>

\* the thread of a call or request, and the thread of another one
Handlers == { 1, 2 }

\* a thread that is not in get_semantic_engine
Outside == [ pc |-> "outside", engine |-> None ]

\* line 216 and a process that serves no request, has opened no IMAP session
\* and has no thread in get_semantic_engine
InitApp ==
    /\ _semantic_engine = None
    /\ constructed = 0
    /\ threads = << Outside, Outside >>
    /\ request = None
    /\ response = None
    /\ fetches = 0
    /\ calls = << >>
    /\ mail = None
    /\ inbox = << >>
    /\ email_ids = << >>

(***************************************************************************)
(* Inputs of the search: corpora of at most MaxDocs parsed e-mails         *)
(***************************************************************************)
DateSeq == << "1", "2", "3", "4", "5", "6", "7", "8", "9" >>

Sender == << "a", "@", "b", ".", "c", "o" >>

\* parse_email's dictionary for the i-th message of the mailbox
Parsed(subject, full_body, i) ==
    [ subject |-> subject, from |-> Sender, date |-> << DateSeq[i] >>,
      body |-> full_body, full_body |-> full_body ]

\* a dictionary without 'full_body', as a caller of the engine may pass
Bare(subject, body_, i) ==
    [ subject |-> subject, from |-> Sender, date |-> << DateSeq[i] >>, body |-> body_ ]

DocAt(kind, i) ==
    IF kind = "parsed" THEN Parsed(<< "H", "i" >>, << "o", "k" >>, i)
    ELSE Bare(<< " " >>, << "<", "b", ">" >>, i)

DocKinds == { "parsed", "bare" }

Corpora ==
    UNION { { [ i \in 1..n |-> DocAt(kinds[i], i) ] : kinds \in [ 1..n -> DocKinds ] }
            : n \in 0..MaxDocs }

Queries == { << "p", "a", "y" >> }

TopKs == (-1)..MaxDocs

Thresholds == { None, << 0 >>, << 100 >> }

EncodeInputs(q, docs) == { q } \cup { CombinedText(docs[i]) : i \in DOMAIN docs }

\* engine.semantic_search(query, emails, top_k, min_threshold) is called
InitSearch ==
    /\ pc = "called"
    /\ query \in Queries
    /\ emails \in Corpora
    /\ top_k \in TopKs
    /\ min_threshold \in Thresholds
    /\ model \in [ EncodeInputs(query, emails) -> RawVectors ]
    /\ result = << >>
    /\ encoded = << >>
    /\ body = << >>
    /\ cleaned = << >>
    /\ InitApp

\* the models SemanticSearchEngine.__init__ tries, in this order
PreferredModel == "all-mpnet-base-v2"

FallbackModel == "all-MiniLM-L6-v2"

\* the n-th SemanticSearchEngine instance of the process
Engine(n, model_name) ==
    [ id |-> n, model_name |-> model_name, similarity_threshold |-> DefaultThreshold ]

\* the call returns: its value goes to result, the texts it encoded to encoded
Return(call) ==
    /\ result' = call.ret
    /\ encoded' = call.encoded

\* engine.semantic_search(query, emails, top_k, min_threshold), called on its own
\* and not from semantic_search_emails
SemanticSearch ==
    /\ pc = "called"
    /\ request = None
    /\ Return(semantic_search(model, query, emails, top_k, min_threshold))
    /\ pc' = "semantic_search"
    /\ UNCHANGED << model, query, emails, top_k, min_threshold, body, cleaned, appVars >>

(***************************************************************************)
(* Inputs of the text cleaning: bodies of at most MaxFrags fragments, and a *)
(* word of LongLen letters followed by at most one fragment                *)
(***************************************************************************)
Fragments ==
    { << "s","e","n","t" >>, << "f","r","o","m" >>, << " " >>, << "\n" >>, << "*" >>,
      << ">" >>, << "<","b" >>, << "&","a","m","p",";" >>, << "&","l","t",";" >>,
      << "l","t",";" >>, << "h","t","t","p",":","/","/","x" >>,
      << "a","@","b",".","c","o" >>, << "U","n","s","u","b","s","c","r","i","b","e" >>,
      << "o","k" >> }

RECURSIVE Concat(_)
Concat(parts) == IF parts = << >> THEN << >> ELSE Head(parts) \o Concat(Tail(parts))

FragmentTexts(k) == UNION { { Concat(parts) : parts \in [ 1..n -> Fragments ] } : n \in 0..k }

LongWord == [ i \in 1..LongLen |-> "a" ]

Bodies == FragmentTexts(MaxFrags) \cup { LongWord \o tail : tail \in FragmentTexts(1) }


InitClean ==
    /\ pc = "called"
    /\ body \in Bodies
    /\ cleaned = << >>
    /\ model = << >>
    /\ query = << >>
    /\ emails = << >>
    /\ top_k = 0
    /\ min_threshold = None
    /\ result = << >>
    /\ encoded = << >>
    /\ InitApp

\* engine.clean_email_body(body), and then once more on what it returned
CleanEmailBody ==
    /\ pc \in { "called", "clean_email_body" }
    /\ Len(cleaned) < 2
    /\ cleaned' = Append(cleaned, clean_email_body(IF cleaned = << >> THEN body
                                                   ELSE cleaned[Len(cleaned)]))
    /\ pc' = "clean_email_body"
    /\ UNCHANGED << model, query, emails, top_k, min_threshold, result, encoded, body,
                    appVars >>

NextClean == CleanEmailBody

SpecClean == InitClean /\ [][NextClean]_vars

(***************************************************************************)
(* Inputs of the document embedding: one e-mail, its subject from Subjects *)
(* and its body of fewer than MaxFrags fragments                           *)
(***************************************************************************)
Subjects == { << >>, << " " >>, << "H","i" >>, << " ","H","i"," " >> }

EmbedBodies == FragmentTexts(MaxFrags - 1)

InitEmbed ==
    /\ pc = "called"
    /\ \E subject \in Subjects, full_body \in EmbedBodies :
         emails = << Parsed(subject, full_body, 1) >>
    /\ model \in [ { CombinedText(emails[1]) } -> RawVectors ]
    /\ query = << >>
    /\ top_k = 0
    /\ min_threshold = None
    /\ result = << >>
    /\ encoded = << >>
    /\ body = << >>
    /\ cleaned = << >>
    /\ InitApp

\* engine.create_email_embedding(emails[0])
CreateEmailEmbedding ==
    /\ pc = "called"
    /\ Return(create_email_embedding(model, emails[1]))
    /\ pc' = "create_email_embedding"
    /\ UNCHANGED << model, query, emails, top_k, min_threshold, body, cleaned, appVars >>

NextEmbed == CreateEmailEmbedding

SpecEmbed == InitEmbed /\ [][NextEmbed]_vars

(***************************************************************************)
(* The shared engine: get_semantic_engine called by the threads that serve *)
(* MaxRequests requests. A thread may be preempted between any two lines,  *)
(* and each loading of a model either succeeds or raises.                  *)
(***************************************************************************)
Requests == 1..MaxRequests

\* thread r moves to pc_ holding engine_
Goto(r, pc_, engine_) ==
    threads' = [ threads EXCEPT ![r] = [ pc |-> pc_, engine |-> engine_ ] ]

InitEngine ==
    /\ _semantic_engine = None
    /\ constructed = 0
    /\ threads = [ r \in Requests |-> [ pc |-> "called", engine |-> None ] ]
    /\ request = None
    /\ response = None
    /\ fetches = 0
    /\ calls = << >>
    /\ mail = None
    /\ inbox = << >>
    /\ email_ids = << >>
    /\ pc = "serving"
    /\ model = << >>
    /\ query = << >>
    /\ emails = << >>
    /\ top_k = 0
    /\ min_threshold = None
    /\ result = << >>
    /\ encoded = << >>
    /\ body = << >>
    /\ cleaned = << >>

\* line 226: if _semantic_engine is None
CheckEngine(r) ==
    /\ threads[r].pc = "called"
    /\ Goto(r, IF _semantic_engine = None THEN "init" ELSE "return", None)
    /\ UNCHANGED << _semantic_engine, constructed, searchVars, boundaryVars, imapVars >>

\* lines 25-27 and 31: SentenceTransformer(model_name) loads, and the instance is built
LoadPreferred(r) ==
    /\ threads[r].pc = "init"
    /\ constructed' = constructed + 1
    /\ Goto(r, "assign", Engine(constructed + 1, PreferredModel))
    /\ UNCHANGED << _semantic_engine, searchVars, boundaryVars, imapVars >>

\* lines 26 and 28: SentenceTransformer(model_name) raises
FailPreferred(r) ==
    /\ threads[r].pc = "init"
    /\ Goto(r, "except", None)
    /\ UNCHANGED << _semantic_engine, constructed, searchVars, boundaryVars, imapVars >>

\* lines 29-31: SentenceTransformer('all-MiniLM-L6-v2') loads, and the instance is built
LoadFallback(r) ==
    /\ threads[r].pc = "except"
    /\ constructed' = constructed + 1
    /\ Goto(r, "assign", Engine(constructed + 1, FallbackModel))
    /\ UNCHANGED << _semantic_engine, searchVars, boundaryVars, imapVars >>

\* line 29: SentenceTransformer('all-MiniLM-L6-v2') raises, and the error leaves
\* __init__ and get_semantic_engine
FailFallback(r) ==
    /\ threads[r].pc = "except"
    /\ Goto(r, "raised", None)
    /\ UNCHANGED << _semantic_engine, constructed, searchVars, boundaryVars, imapVars >>

\* line 227: _semantic_engine = <the new instance>
AssignEngine(r) ==
    /\ threads[r].pc = "assign"
    /\ _semantic_engine' = threads[r].engine
    /\ Goto(r, "return", None)
    /\ UNCHANGED << constructed, searchVars, boundaryVars, imapVars >>

\* line 228: return _semantic_engine
ReturnEngine(r) ==
    /\ threads[r].pc = "return"
    /\ Goto(r, "returned", _semantic_engine)
    /\ UNCHANGED << _semantic_engine, constructed, searchVars, boundaryVars, imapVars >>

\* get_semantic_engine, one line of one thread at a time
get_semantic_engine(r) ==
    \/ CheckEngine(r)
    \/ LoadPreferred(r)
    \/ FailPreferred(r)
    \/ LoadFallback(r)
    \/ FailFallback(r)
    \/ AssignEngine(r)
    \/ ReturnEngine(r)

NextEngine == \E r \in Requests : get_semantic_engine(r)

\* every thread that can take a step takes one in the end
SpecEngine == InitEngine /\ [][NextEngine]_vars /\ WF_vars(NextEngine)

(***************************************************************************)
(* Inputs of search_with_threshold: a corpus of at most MaxDocs e-mails, a *)
(* threshold in [0, 1] and a top_k from 0 to MaxDocs                       *)
(***************************************************************************)
SearchThresholds == { << 0 >>, << 5 >>, << 30 >>, << 100 >> }

InitThreshold ==
    /\ pc = "called"
    /\ query \in Queries
    /\ emails \in Corpora
    /\ top_k \in 0..MaxDocs
    /\ min_threshold \in SearchThresholds
    /\ model \in [ EncodeInputs(query, emails) -> RawVectors ]
    /\ result = << >>
    /\ encoded = << >>
    /\ body = << >>
    /\ cleaned = << >>
    /\ InitApp

\* engine.search_with_threshold(query, emails, threshold, top_k)
SearchWithThreshold ==
    /\ pc = "called"
    /\ Return(search_with_threshold(model, query, emails, min_threshold[1], top_k))
    /\ pc' = "search_with_threshold"
    /\ UNCHANGED << model, query, emails, top_k, min_threshold, body, cleaned, appVars >>

NextThreshold == SearchWithThreshold

SpecThreshold == InitThreshold /\ [][NextThreshold]_vars

(***************************************************************************)
(* The IMAP client: fetch_all_emails and search_emails over a folder of at *)
(* most MaxMsgs single-part messages. Every IMAP command either succeeds   *)
(* or raises.                                                              *)
(***************************************************************************)
\* None where a header is missing
Missing == << "None" >>

NoSubject == << "(", "N", "o", " ", "S", "u", "b", "j", "e", "c", "t", ")" >>

\* the length of the preview parse_email keeps of a body
PreviewLen == 200

LongBody == [ i \in 1..(PreviewLen + 1) |-> "a" ]

\* a message on the server: its Subject, From and Date headers and its payload
Message(subject, from, date, payload) ==
    [ subject |-> subject, from |-> from, date |-> date, payload |-> payload ]

Messages ==
    { Message(<< "H", "i" >>, Sender, << "1" >>, << " ", "o", "k", "\n" >>),
      Message(<< >>, Missing, Missing, << "p", "a", "y" >>),
      Message(Missing, Sender, << "2" >>, << "o", "k" >>),
      Message(<< "O", "K" >>, Sender, << "3" >>, LongBody) }

\* line 46: decode_header(None) raises
ParseRaises(msg) == msg.subject = Missing

\* parse_email(msg, full_body=False) of a message that has a Subject
parse_email(msg) ==
    [ subject |-> IF msg.subject = << >> THEN NoSubject ELSE msg.subject,
      from |-> msg.from,
      date |-> msg.date,
      body |-> Slice(Strip(msg.payload), PreviewLen),
      full_body |-> Strip(msg.payload) ]

\* str.lower()
Lower(text) == [ i \in 1..Len(text) |-> ToLower(text[i]) ]

\* needle in hay
Contains(needle, hay) ==
    \E i \in 1..(Len(hay) - Len(needle) + 1) : SubSeq(hay, i, i + Len(needle) - 1) = needle

\* lines 37-40: "match", "no match", or "raise" when .lower() is called on None
Match(keyword, parsed) ==
    IF Contains(Lower(keyword), Lower(parsed.subject)) THEN "match"
    ELSE IF Contains(Lower(keyword), Lower(parsed.full_body)) THEN "match"
    ELSE IF parsed.from = Missing THEN "raise"
    ELSE IF Contains(Lower(keyword), Lower(parsed.from)) THEN "match"
    ELSE IF parsed.date = Missing THEN "raise"
    ELSE IF Contains(Lower(keyword), Lower(parsed.date)) THEN "match"
    ELSE "no match"

ImapRequests ==
    { [ fn |-> "fetch_all_emails", keyword |-> << >> ] }
      \cup { [ fn |-> "search_emails", keyword |-> k ]
             : k \in { << "o", "k" >>, << "A", "@" >>, << "z" >> } }

InitClient ==
    /\ pc = "called"
    /\ request \in ImapRequests
    /\ inbox \in UNION { [ 1..n -> Messages ] : n \in 0..MaxMsgs }
    /\ mail = None
    /\ email_ids = << >>
    /\ result = << >>
    /\ response = None
    /\ fetches = 0
    /\ calls = << >>
    /\ _semantic_engine = None
    /\ constructed = 0
    /\ threads = << >>
    /\ model = << >>
    /\ query = << >>
    /\ emails = << >>
    /\ top_k = 0
    /\ min_threshold = None
    /\ encoded = << >>
    /\ body = << >>
    /\ cleaned = << >>

\* what the steps of the IMAP client leave alone
clientRest ==
    << model, query, emails, top_k, min_threshold, encoded, body, cleaned,
       _semantic_engine, constructed, threads, request, response, fetches, calls, inbox >>

\* login_to_email, lines 7-9, called by the function request names: the
\* session is open
Login ==
    /\ pc = "called"
    /\ request # None
    /\ mail' = "open"
    /\ pc' = "select"
    /\ UNCHANGED << email_ids, result, clientRest >>

\* lines 7-8: IMAP4_SSL or login raises, and no session is open
LoginRaises ==
    /\ pc = "called"
    /\ request # None
    /\ pc' = "raised"
    /\ UNCHANGED << mail, email_ids, result, clientRest >>

\* lines 13 and 27: mail.select(folder)
Select ==
    /\ pc = "select"
    /\ pc' = "search"
    /\ UNCHANGED << mail, email_ids, result, clientRest >>

\* lines 14-17 and 28-31: mail.search(None, "ALL"), the ids, the empty list
SearchAll ==
    /\ pc = "search"
    /\ email_ids' = Reverse([ i \in 1..Len(inbox) |-> i ])
    /\ result' = << >>
    /\ pc' = "loop"
    /\ UNCHANGED << mail, clientRest >>

\* lines 18-21 of fetch_all_emails: one turn of the loop
FetchOne ==
    /\ pc = "loop"
    /\ request.fn = "fetch_all_emails"
    /\ email_ids # << >>
    /\ IF ParseRaises(inbox[Head(email_ids)])
       THEN pc' = "raised" /\ UNCHANGED << email_ids, result >>
       ELSE /\ result' = Append(result, parse_email(inbox[Head(email_ids)]))
            /\ email_ids' = Tail(email_ids)
            /\ UNCHANGED pc
    /\ UNCHANGED << mail, clientRest >>

\* the parsed message joins the result if the keyword matches, lines 37-41
Filter(parsed, outcome) ==
    IF outcome = "raise"
    THEN pc' = "raised" /\ UNCHANGED << email_ids, result >>
    ELSE /\ result' = IF outcome = "match" THEN Append(result, parsed) ELSE result
         /\ email_ids' = Tail(email_ids)
         /\ UNCHANGED pc

\* lines 32-41 of search_emails: one turn of the loop
SearchOne ==
    /\ pc = "loop"
    /\ request.fn = "search_emails"
    /\ email_ids # << >>
    /\ IF ParseRaises(inbox[Head(email_ids)])
       THEN pc' = "raised" /\ UNCHANGED << email_ids, result >>
       ELSE Filter(parse_email(inbox[Head(email_ids)]),
                   Match(request.keyword, parse_email(inbox[Head(email_ids)])))
    /\ UNCHANGED << mail, clientRest >>

\* mail.select, mail.search or mail.fetch raises (lines 13, 14, 19, 27, 28, 33)
CommandRaises ==
    /\ \/ pc \in { "select", "search" }
       \/ pc = "loop" /\ email_ids # << >>
    /\ pc' = "raised"
    /\ UNCHANGED << mail, email_ids, result, clientRest >>

\* lines 22 and 42: mail.logout() raises, and the session stays open with the
\* list built
LogoutRaises ==
    /\ pc = "loop"
    /\ email_ids = << >>
    /\ pc' = "raised"
    /\ UNCHANGED << mail, email_ids, result, clientRest >>

\* lines 22-23 and 42-43: mail.logout() and the return
Logout ==
    /\ pc = "loop"
    /\ email_ids = << >>
    /\ mail' = "closed"
    /\ pc' = "returned"
    /\ UNCHANGED << email_ids, result, clientRest >>

NextClient ==
    \/ Login
    \/ LoginRaises
    \/ Select
    \/ SearchAll
    \/ FetchOne
    \/ SearchOne
    \/ CommandRaises
    \/ LogoutRaises
    \/ Logout

SpecClient == InitClient /\ [][NextClient]_vars

(***************************************************************************)
(* The presentation layers: the routes /fetch, /search and /semantic-search *)
(* of the web API and the options 1, 2 and 3 of the CLI, serving one        *)
(* request a line at a time. The web server runs its handlers in threads:   *)
(* the second thread is another /semantic-search request, which meets this  *)
(* one in the only state the handlers share, the global of                  *)
(* get_semantic_engine. The CLI has the one thread.                         *)
(***************************************************************************)
\* a threshold as the layer receives it: none (the key is missing, Enter is
\* pressed), a text that is no number, or a number in hundredths
Absent == [ kind |-> "absent", val |-> 0 ]

Unparsable == [ kind |-> "text", val |-> 0 ]

Given(x) == [ kind |-> "float", val |-> x ]

ThresholdInputs == { Absent, Unparsable, Given(-10), Given(10), Given(100), Given(110) }

\* the requests of a layer: fn is the function of imap_client.py the route
\* calls, keyword what /search and option 2 look for, as stripped
LayerRequests(layer, fetch, search, semantic, flags, top_ks) ==
    [ layer : { layer }, route : { fetch }, fn : { "fetch_all_emails" },
      keyword : { << >> }, has_query : { FALSE }, threshold : { Absent },
      include_scores : { FALSE }, top_k : { 0 } ]
    \cup [ layer : { layer }, route : { search }, fn : { "search_emails" },
           keyword : { << "o", "k" >>, << "z" >> }, has_query : { FALSE }, threshold : { Absent },
           include_scores : { FALSE }, top_k : { 0 } ]
    \cup [ layer : { layer }, route : { semantic }, fn : { "fetch_all_emails" },
           keyword : { << >> }, has_query : flags, threshold : ThresholdInputs,
           include_scores : flags, top_k : top_ks ]

WebRequests ==
    LayerRequests("web", "/fetch", "/search", "/semantic-search", BOOLEAN, { 1, WebTopK })

CliRequests == LayerRequests("cli", "1", "2", "3", { TRUE }, { CliTopK })

BoundaryQueries == { << " " >>, << "p", "a", "y" >> }

\* folders: empty, of one message, of two messages the older without Subject
\* text, From and Date, and of one message without a Subject header
Inboxes ==
    { << >>,
      << Message(<< "H", "i" >>, Sender, << "1" >>, << " ", "o", "k", "\n" >>) >>,
      << Message(<< >>, Missing, Missing, << "p", "a", "y" >>),
         Message(<< "H", "i" >>, Sender, << "1" >>, << " ", "o", "k", "\n" >>) >>,
      << Message(Missing, Sender, << "2" >>, << "o", "k" >>) >> }

BoundaryVectors == { << 3, 4 >>, << 0, 10 >> }

\* what fetch_all_emails returns of a folder its loop gets through: the
\* messages newest first (line 18)
ParsedFolder(box) ==
    IF \E i \in DOMAIN box : ParseRaises(box[i]) THEN << >>
    ELSE Reverse([ i \in DOMAIN box |-> parse_email(box[i]) ])

InitLayer ==
    /\ pc = "request"
    /\ request \in WebRequests \cup CliRequests
    /\ query \in BoundaryQueries
    /\ inbox \in Inboxes
    /\ model \in [ EncodeInputs(query, ParsedFolder(inbox)) \cup { Strip(query) }
                   -> BoundaryVectors ]
    /\ \E n \in { 0, 1 } :
         /\ constructed = n
         /\ _semantic_engine = IF n = 0 THEN None ELSE Engine(1, PreferredModel)
    /\ threads = << Outside, IF request.layer = "web"
                              THEN [ pc |-> "called", engine |-> None ] ELSE Outside >>
    /\ response = None
    /\ fetches = 0
    /\ calls = << >>
    /\ mail = None
    /\ email_ids = << >>
    /\ emails = << >>
    /\ top_k = 0
    /\ min_threshold = None
    /\ result = << >>
    /\ encoded = << >>
    /\ body = << >>
    /\ cleaned = << >>

\* min_threshold < 0.0 or min_threshold > 1.0
OutOfRange(x) == x < 0 \/ x > 100

\* the route or option runs a semantic search, or semantic_search_emails is
\* called on its own
Semantic == request.route \in { "/semantic-search", "3", "semantic_search_emails" }

\* the function of semantic_search.py the layer calls
CoreFn ==
    IF request.include_scores THEN "semantic_search_with_scores"
    ELSE "semantic_search_emails"

\* cli_app.py line 169: the CLI strips the query it reads
CoreQuery == IF request.layer = "cli" THEN Strip(query) ELSE query

\* what a layer leaves alone until it calls the IMAP client
entryRest ==
    << model, query, emails, result, encoded, body, cleaned, _semantic_engine,
       constructed, threads, request, fetches, calls, imapVars >>

\* the layer answers without calling anything
Answer(status) ==
    /\ response' = status
    /\ pc' = "responded"

\* web_app.fetch, lines 58-62
WebFetch ==
    /\ pc = "request"
    /\ request.layer = "web"
    /\ request.route = "/fetch"
    /\ pc' = "called"
    /\ UNCHANGED << top_k, min_threshold, response, entryRest >>

\* web_app.search, lines 69-73
WebSearch ==
    /\ pc = "request"
    /\ request.layer = "web"
    /\ request.route = "/search"
    /\ pc' = "called"
    /\ UNCHANGED << top_k, min_threshold, response, entryRest >>

\* web_app.semantic_search, lines 80-103 and 131-134: the required fields, the
\* optional ones, the threshold, the call
WebSemanticSearch ==
    /\ pc = "request"
    /\ request.layer = "web"
    /\ request.route = "/semantic-search"
    /\ IF ~request.has_query
       THEN Answer("400") /\ UNCHANGED << top_k, min_threshold >>  \* Missing required field
       ELSE /\ top_k' = request.top_k
            /\ IF request.threshold.kind = "text"
               THEN Answer("500") /\ UNCHANGED min_threshold       \* the comparison raises
               ELSE /\ min_threshold' = << IF request.threshold.kind = "absent"
                                           THEN DefaultThreshold
                                           ELSE request.threshold.val >>
                    /\ IF OutOfRange(min_threshold'[1]) THEN Answer("400")
                       ELSE pc' = "called" /\ UNCHANGED response
    /\ UNCHANGED entryRest

\* cli_app.run_cli, option 1, lines 133-135
CliFetch ==
    /\ pc = "request"
    /\ request.layer = "cli"
    /\ request.route = "1"
    /\ pc' = "called"
    /\ UNCHANGED << top_k, min_threshold, response, entryRest >>

\* cli_app.run_cli, option 2, lines 148-150
CliSearch ==
    /\ pc = "request"
    /\ request.layer = "cli"
    /\ request.route = "2"
    /\ pc' = "called"
    /\ UNCHANGED << top_k, min_threshold, response, entryRest >>

\* cli_app.run_cli, option 3, lines 168-194: the query, the threshold, the call
CliSemanticSearch ==
    /\ pc = "request"
    /\ request.layer = "cli"
    /\ request.route = "3"
    /\ IF Strip(query) = << >>
       THEN Answer("invalid query") /\ UNCHANGED << top_k, min_threshold >>
       ELSE /\ min_threshold' = << IF request.threshold.kind = "float"
                                      /\ ~OutOfRange(request.threshold.val)
                                   THEN request.threshold.val ELSE DefaultThreshold >>
            /\ top_k' = CliTopK
            /\ pc' = "called"
            /\ UNCHANGED response
    /\ UNCHANGED entryRest

\* semantic_search.py lines 250-253 and 284-287: fetch_all_emails has returned
\* the mailbox; an empty one is the answer, another goes on to line 256 or 290,
\* the call of get_semantic_engine
ReceiveMailbox ==
    /\ pc = "returned"
    /\ Semantic
    /\ emails' = result
    /\ fetches' = fetches + 1
    /\ IF result = << >>
       THEN pc' = CoreFn /\ UNCHANGED threads
       ELSE pc' = "engine" /\ Goto(1, "called", None)
    /\ UNCHANGED << model, query, top_k, min_threshold, result, encoded, body, cleaned,
                    _semantic_engine, constructed, request, response, calls, imapVars >>

\* semantic_search.py lines 259-262 and 293: get_semantic_engine has returned,
\* and engine.semantic_search runs
CoreSearch ==
    /\ pc = "engine"
    /\ threads[1].pc = "returned"
    /\ calls' = IF request.layer = "none" THEN calls
                 ELSE Append(calls, [ top_k |-> top_k, min_threshold |-> min_threshold[1] ])
    /\ Return(IF request.include_scores
              THEN semantic_search_with_scores(model, emails, CoreQuery, top_k,
                                               min_threshold)
              ELSE semantic_search_emails(model, emails, CoreQuery, top_k, min_threshold))
    /\ pc' = CoreFn
    /\ UNCHANGED << model, query, emails, top_k, min_threshold, body, cleaned,
                    _semantic_engine, constructed, threads, request, response, fetches,
                    imapVars >>

\* get_semantic_engine has raised, and the error leaves the function that called it
CoreRaises ==
    /\ pc \in { "engine", "model info" }
    /\ threads[1].pc = "raised"
    /\ pc' = "raised"
    /\ UNCHANGED << model, query, emails, top_k, min_threshold, result, encoded, body,
                    cleaned, appVars >>

\* cli_app.py lines 196-199: there are results, and get_semantic_engine is
\* called for the name of the model
CliModelInfo ==
    /\ pc = "semantic_search_with_scores"
    /\ request.layer = "cli"
    /\ result # << >>
    /\ pc' = "model info"
    /\ Goto(1, "called", None)
    /\ UNCHANGED << model, query, emails, top_k, min_threshold, result, encoded, body,
                    cleaned, _semantic_engine, constructed, boundaryVars, imapVars >>

\* lines 60 and 71 of web_app.py, 135 and 150 of cli_app.py: the list the IMAP
\* client returned
ReceiveList ==
    /\ pc = "returned"
    /\ ~Semantic
    /\ emails' = result
    /\ fetches' = IF request.fn = "fetch_all_emails" THEN fetches + 1 ELSE fetches

\* the web API answers: 500 on an error (lines 64-65, 75-76, 142-143), the list
\* of /fetch and /search (lines 63, 74), the results of /semantic-search
\* (lines 104-129, 135-140)
WebRespond ==
    /\ request.layer = "web"
    /\ \/ /\ pc = "raised"
          /\ response' = "500"
          /\ UNCHANGED << emails, fetches >>
       \/ /\ ReceiveList
          /\ response' = "200"
       \/ /\ pc \in { "semantic_search_emails", "semantic_search_with_scores" }
          /\ response' = "200"
          /\ UNCHANGED << emails, fetches >>
    /\ pc' = "responded"
    /\ UNCHANGED << model, query, top_k, min_threshold, result, encoded, body, cleaned,
                    _semantic_engine, constructed, threads, request, calls, imapVars >>

\* the CLI answers: the error of option 3 (lines 219-221) or of options 1 and 2
\* (lines 230-231), the list of options 1 and 2 (lines 136-146, 152-166), the
\* results of option 3 (lines 200-215) or their absence (lines 216-218)
CliRespond ==
    /\ request.layer = "cli"
    /\ \/ /\ pc = "raised"
          /\ response' = IF request.route = "3" THEN "error" ELSE "ERROR"
          /\ UNCHANGED << emails, fetches >>
       \/ /\ ReceiveList
          /\ response' = IF result = << >> THEN "not found" ELSE "found"
       \/ /\ pc = "semantic_search_with_scores"
          /\ result = << >>
          /\ response' = "not found"
          /\ UNCHANGED << emails, fetches >>
       \/ /\ pc = "model info"
          /\ threads[1].pc = "returned"
          /\ response' = "found"
          /\ UNCHANGED << emails, fetches >>
    /\ pc' = "responded"
    /\ UNCHANGED << model, query, top_k, min_threshold, result, encoded, body, cleaned,
                    _semantic_engine, constructed, threads, request, calls, imapVars >>

NextLayer ==
    \/ WebFetch
    \/ WebSearch
    \/ WebSemanticSearch
    \/ CliFetch
    \/ CliSearch
    \/ CliSemanticSearch
    \/ NextClient
    \/ ReceiveMailbox
    \/ \E r \in Handlers : get_semantic_engine(r)
    \/ CoreSearch
    \/ CoreRaises
    \/ CliModelInfo
    \/ WebRespond
    \/ CliRespond

SpecLayer == InitLayer /\ [][NextLayer]_vars

(***************************************************************************)
(* The calls of the search: engine.semantic_search on a corpus, and         *)
(* semantic_search_emails on a folder, a line at a time, in a process whose *)
(* second thread is another caller of it inside get_semantic_engine         *)
(***************************************************************************)
\* semantic_search_emails(host, user, password, query, top_k=, min_threshold=)
\* is called, and is about to call fetch_all_emails (line 250)
InitCall ==
    /\ pc = "called"
    /\ request = [ layer |-> "none", route |-> "semantic_search_emails",
                   fn |-> "fetch_all_emails", keyword |-> << >>,
                   include_scores |-> FALSE ]
    /\ query \in Queries
    /\ top_k \in TopKs
    /\ min_threshold \in Thresholds
    /\ inbox \in Inboxes
    /\ model \in [ EncodeInputs(query, ParsedFolder(inbox)) -> BoundaryVectors ]
    /\ _semantic_engine = None
    /\ constructed = 0
    /\ threads = << Outside, [ pc |-> "called", engine |-> None ] >>
    /\ response = None
    /\ fetches = 0
    /\ calls = << >>
    /\ mail = None
    /\ email_ids = << >>
    /\ emails = << >>
    /\ result = << >>
    /\ encoded = << >>
    /\ body = << >>
    /\ cleaned = << >>

Next ==
    \/ SemanticSearch
    \/ Login
    \/ LoginRaises
    \/ Select
    \/ SearchAll
    \/ FetchOne
    \/ CommandRaises
    \/ LogoutRaises
    \/ Logout
    \/ ReceiveMailbox
    \/ \E r \in Handlers : get_semantic_engine(r)
    \/ CoreSearch
    \/ CoreRaises

Init == InitSearch \/ InitCall

Spec == Init /\ [][Next]_vars

(***************************************************************************)
(* Properties of semantic_search, checked under Spec                       *)
(***************************************************************************)
Searched == pc = "semantic_search"

\* the score of every document of the corpus, in corpus order
Scores == EmailScores(model, query, emails).ret

Threshold == IF min_threshold = None THEN DefaultThreshold ELSE min_threshold[1]

\* the positions of the scored corpus sc whose score is at or above the threshold
Qualifying(sc) == { i \in DOMAIN sc : FloatGe(sc[i].score, Num(Threshold)) }

\* the corpus position of a returned document (the dates of a corpus differ)
Pos(email) == CHOOSE i \in DOMAIN emails : emails[i].date = email.date

AllBelowThreshold(sc) == \A i \in DOMAIN sc : FloatLt(sc[i].score, Num(Threshold))

\* C1: semantic_search with top_k = 0 returns the empty list, whether or not a
\* document scores at or above the threshold.
C1_TopKZeroReturnsEmpty == (Searched /\ top_k = 0) => result = << >>

\* C2: for a non-empty corpus whose scores are all strictly below the threshold,
\* semantic_search with top_k >= 1 returns exactly one element: the earliest
\* document of the corpus that has the maximal score, with that score.
C2_FallbackLaw ==
    (Searched /\ emails # << >> /\ top_k >= 1)
    => LET sc == Scores
       IN  AllBelowThreshold(sc)
           => /\ Len(result) = 1
              /\ LET best == SetMin({ i \in DOMAIN sc :
                                        \A j \in DOMAIN sc :
                                           sc[j].score.val <= sc[i].score.val })
                 IN  result[1] = [ email |-> emails[best], score |-> sc[best].score ]

\* a fallback that picks the second of three documents: the first scores lower,
\* the third ties with the second
C2_Witness ==
    /\ Searched /\ top_k >= 1 /\ Len(emails) = 3 /\ AllBelowThreshold(Scores)
    /\ FloatLt(Scores[1].score, Scores[2].score)
    /\ Scores[2].score = Scores[3].score
    /\ Len(result) = 1 /\ result[1].email = emails[2]

\* C3: semantic_search with a negative top_k returns what it returns with
\* top_k = 0.
C3_NegativeTopKAsZero ==
    (Searched /\ top_k < 0)
    => result = semantic_search(model, query, emails, 0, min_threshold).ret

\* C4: in every result of semantic_search the scores do not increase from first
\* to last, and documents of equal score keep their corpus order.
C4_OrderingLaw ==
    Searched
    => \A i, j \in DOMAIN result :
         i < j => /\ FloatGe(result[i].score, result[j].score)
                  /\ result[i].score = result[j].score
                       => Pos(result[i].email) < Pos(result[j].email)

\* a result of three documents with a tie, in which the sort moved a later
\* document of the corpus to the front
C4_Witness ==
    /\ Searched /\ Len(result) = 3
    /\ result[2].score = result[3].score
    /\ FloatLt(result[2].score, result[1].score)
    /\ Pos(result[1].email) = 3

\* C5: when some document scores at or above the threshold and top_k >= 1, the
\* result is the min(top_k, q) best of the q documents at or above the threshold:
\* each returned document is one of them, once, with its score, and none of them
\* is left out for a lower-scoring one.
C5_BestOfQualifying ==
    (Searched /\ top_k >= 1)
    => LET sc == Scores
           good == Qualifying(sc)
           at == [ i \in DOMAIN result |-> Pos(result[i].email) ]
       IN  good # {}
           => /\ Len(result) = IF top_k < Cardinality(good) THEN top_k
                               ELSE Cardinality(good)
              /\ \A i \in DOMAIN result : at[i] \in good /\ result[i] = sc[at[i]]
              /\ \A i, j \in DOMAIN result : i # j => at[i] # at[j]
              /\ \A k \in good :
                   (\A i \in DOMAIN result : at[i] # k)
                   => \A i \in DOMAIN result : result[i].score.val >= sc[k].score.val

\* three documents, three asked for, one at or above the threshold: one returned
C5_Witness ==
    /\ Searched /\ top_k = 3 /\ Len(emails) = 3
    /\ Cardinality(Qualifying(Scores)) = 1
    /\ Len(result) = 1

\* C6: a search of an empty corpus, by semantic_search or by
\* semantic_search_emails, returns the empty list and hands no text to the model.
C6_EmptyCorpusLaw ==
    (pc \in { "semantic_search", "semantic_search_emails" } /\ emails = << >>)
    => result = << >> /\ encoded = << >>

\* an empty corpus searched with a positive top_k and a zero-norm query vector
C6_Witness ==
    /\ Searched /\ emails = << >> /\ top_k > 0
    /\ model[query] = << 0, 0 >>
    /\ result = << >> /\ encoded = << >>

\* C10: a zero-norm embedding of the query or of a document gives that document
\* the score 0, and no NaN score is returned.
C10_DegenerateScoresZero ==
    Searched
    => /\ \A i \in DOMAIN result : ~result[i].score.nan
       /\ LET sc == Scores
          IN  \A i \in DOMAIN emails :
                (Norm(model[query]) = 0 \/ Norm(model[CombinedText(emails[i])]) = 0)
                => sc[i].score = Num(0)

(***************************************************************************)
(* Properties of clean_email_body, checked under SpecClean                 *)
(***************************************************************************)
\* a body of several lines that holds nothing but words, blanks and '>'
IsPlainLines(text) ==
    /\ \E i \in DOMAIN text : text[i] = "\n"
    /\ \A i \in DOMAIN text : text[i] \in { "o", "k", " ", "\n", ">" }

\* C7: clean_email_body drops the quoted lines of the body as it came, line by
\* line: of a plain body of several lines, the lines whose trimmed form starts
\* with '>' are gone and the words of every other line are kept.
C7_QuotedLinesDropped ==
    (cleaned # << >> /\ IsPlainLines(body))
    => cleaned[1] = Strip(CollapseWhitespace(ReplaceSpecials(RemoveQuotedLines(body))))

\* C8: clean_email_body is idempotent: cleaning its own return changes nothing.
C8_Idempotent == Len(cleaned) = 2 => cleaned[2] = cleaned[1]

(***************************************************************************)
(* Properties of create_email_embedding, checked under SpecEmbed           *)
(***************************************************************************)
Embedded == pc = "create_email_embedding"

SubjectTwiceThenBody(email_data) ==
    Strip(email_data.subject) \o << " " >> \o Strip(email_data.subject) \o << " " >>
      \o clean_email_body(email_data.full_body)

\* C9: a document whose subject and body are both empty or blank is
\* embedded as the text 'empty document', every other document as its subject
\* twice and then its cleaned body, and the model never gets a blank text.
C9_PlaceholderEmptyDocument ==
    Embedded
    => /\ encoded = << IF Strip(emails[1].subject) = << >>
                          /\ Strip(emails[1].full_body) = << >>
                       THEN << "e","m","p","t","y"," ","d","o","c","u","m","e","n","t" >>
                       ELSE SubjectTwiceThenBody(emails[1]) >>
       /\ Strip(encoded[1]) # << >>

(***************************************************************************)
(* Properties of get_semantic_engine, checked under SpecEngine             *)
(***************************************************************************)
\* the requests whose call of get_semantic_engine has returned an engine
Returned == { r \in Requests : threads[r].pc = "returned" }

\* some construction of the engine has failed: both loadings raised
ConstructionFailed == \E r \in Requests : threads[r].pc = "raised"

\* no call of get_semantic_engine is under way
Quiet == \A r \in Requests : threads[r].pc \in { "called", "returned", "raised" }

\* C11: under any interleaving of concurrent requests the engine is constructed
\* at most once per process, and every call of get_semantic_engine returns the
\* same instance.
C11_SingleEngine ==
    /\ constructed <= 1
    /\ \A r1 \in Returned, r2 \in Returned : threads[r1].engine = threads[r2].engine

\* C12: once a construction has failed because both loadings failed, no later
\* call constructs the engine again or completes: from a moment when the
\* failure has happened and no call is under way, the number of engines built
\* and the set of completed calls never change again.
C12_NoSearchAfterFailure ==
    \A c \in 0..MaxRequests : \A done \in SUBSET Requests :
        [] ( (Quiet /\ ConstructionFailed /\ constructed = c /\ Returned = done)
             => [] (constructed = c /\ Returned = done) )

(***************************************************************************)
(* Properties of the presentation layers, checked under SpecLayer          *)
(***************************************************************************)
\* the request has been answered and its threshold is a number outside [0.0, 1.0]
AnsweredOutOfRange ==
    /\ pc = "responded"
    /\ request.threshold.kind = "float"
    /\ OutOfRange(request.threshold.val)

\* C13: at every presentation layer a request whose threshold lies outside
\* [0.0, 1.0] is rejected before it reaches the core: no mail is fetched for it
\* and semantic_search is never invoked.
C13_OutOfRangeRejected == AnsweredOutOfRange => (fetches = 0 /\ calls = << >>)

(***************************************************************************)
(* Properties of search_with_threshold, checked under SpecThreshold        *)
(***************************************************************************)
\* C14: search_with_threshold returns exactly the (at most top_k) highest-scoring
\* documents whose score is >= threshold, for every threshold in [0, 1]. Stated
\* for the calls in which every score is a number: the result has min(top_k, q)
\* of the q documents at or above the threshold, each once and with its score,
\* in descending order, and none of them is left out for a lower-scoring one.
C14_ExactlyAboveThreshold ==
    pc = "search_with_threshold"
    => LET sc == Scores
           good == Qualifying(sc)
           at == [ i \in DOMAIN result |-> Pos(result[i].email) ]
       IN  (\A i \in DOMAIN sc : ~sc[i].score.nan)
           => /\ Len(result) = IF top_k < Cardinality(good) THEN top_k
                               ELSE Cardinality(good)
              /\ \A i \in DOMAIN result : at[i] \in good /\ result[i] = sc[at[i]]
              /\ \A i, j \in DOMAIN result : i # j => at[i] # at[j]
              /\ \A i, j \in DOMAIN result :
                   i < j => result[i].score.val >= result[j].score.val
              /\ \A k \in good :
                   (\A i \in DOMAIN result : at[i] # k)
                   => \A i \in DOMAIN result : result[i].score.val >= sc[k].score.val

(***************************************************************************)
(* Properties of the IMAP client, checked under SpecClient                 *)
(***************************************************************************)
\* C15: every IMAP session opened by fetch_all_emails or search_emails is closed
\* before the function returns or propagates an error: when the function has
\* ended, by return or by an error of select, search, fetch or parsing, no
\* session is left open.
C15_SessionClosed == pc \in { "returned", "raised" } => mail # "open"

====
